---------------------------- MODULE Spec2Model ----------------------------
(***************************************************************************)
(* A model of botcity/maestro/sdk.py: the BotMaestroSDK client.  The       *)
(* client holds a server URL, a login, a key and an access token; login,   *)
(* logoff and the access_token property write the token, and twelve        *)
(* authenticated operations each send one HTTP request and turn the        *)
(* response into a value or an error.                                      *)
(*                                                                         *)
(* Python values.  A str is a TLA+ string ("" is the empty str).  None, in *)
(* a place that otherwise holds a str, is the value None below, which is   *)
(* in none of the string domains of the model (it is also what Python's    *)
(* string formatting prints for None).  A decoded JSON object is a record  *)
(* [t |-> "object", members |-> f], a decoded JSON array is                *)
(* [t |-> "array", items |-> s]; the dict under the columns key of a log   *)
(* entry is named by its JSON text.                                        *)
(*                                                                         *)
(* Each call is two steps: the call itself, up to the moment the request   *)
(* is on the wire (or the call has ended without one), and the arrival of  *)
(* the response, which ends the call.  The client is used by one thread,   *)
(* so no call starts while another is running.                             *)
(***************************************************************************)
EXTENDS Integers, Sequences, FiniteSets, TLC

VARIABLES
    _server,        \* self._server
    _login,         \* self._login
    _key,           \* self._key
    _access_token,  \* self._access_token
    call,           \* the call in progress, or the last one made, with its arguments
    request,        \* the HTTP request that call has issued, NoRequest if none
    response,       \* the response received for it, NoResponse if none (yet)
    outcome,        \* Running, or how the call ended: a return value or an exception
    open_files      \* file objects opened by the client and not closed

vars == <<_server, _login, _key, _access_token, call, request, response, outcome, open_files>>

---------------------------------------------------------------------------
(* Bounds of the model. *)

\* longest server URL given to the constructor, the setter or login, every
\* URL up to it being tried (ServerArgs adds two longer ones)
MaxUrlLen == 1
\* most entries in the array a log read returns
MaxEntries == 2
\* longest Content-Disposition header value explored exhaustively
MaxHeaderLen == 5
\* most file objects left open at once (post_artifact is not taken beyond it)
MaxOpenFiles == 1

---------------------------------------------------------------------------
(* Python strings. *)

None == "None"

\* bool(v) for v a str or None
Truthy(v) == v # None /\ v # ""

\* a or b
PyOr(a, b) == IF Truthy(a) THEN a ELSE b

\* s[i] for a 1-based position i
CharAt(s, i) == SubSeq(s, i, i)

\* s[start:stop] with Python's 0-based indices, negative ones counted from
\* the end and both clamped to the string
PyIndex(s, i) ==
    LET n == Len(s)
        j == IF i < 0 THEN i + n ELSE i
    IN  IF j < 0 THEN 0 ELSE IF j > n THEN n ELSE j

PySlice(s, start, stop) == SubSeq(s, PyIndex(s, start) + 1, PyIndex(s, stop))

\* s[start:]
PySliceFrom(s, start) == SubSeq(s, PyIndex(s, start) + 1, Len(s))

\* s.rfind(c): the 0-based index of the last occurrence of the character c, -1 if none
RECURSIVE RFindFrom(_, _, _)
RFindFrom(s, c, i) ==
    IF i = 0 THEN -1
    ELSE IF CharAt(s, i) = c THEN i - 1
    ELSE RFindFrom(s, c, i - 1)

rfind(s, c) == RFindFrom(s, c, Len(s))

\* all strings over an alphabet of length at most n
RECURSIVE StringsUpTo(_, _)
StringsUpTo(alphabet, n) ==
    IF n = 0 THEN {""}
    ELSE LET shorter == StringsUpTo(alphabet, n - 1)
         IN  shorter \cup {s \o c : s \in shorter, c \in alphabet}

\* ",".join(parts)
RECURSIVE Join(_, _)
Join(sep, parts) ==
    IF Len(parts) = 0 THEN ""
    ELSE IF Len(parts) = 1 THEN parts[1]
    ELSE parts[1] \o sep \o Join(sep, Tail(parts))

---------------------------------------------------------------------------
(* JSON.  The documents a response body or a message field may hold, their  *)
(* text, and decoding as the inverse of that text.                          *)

\* the column maps of a log entry, {"a": 1} and {"a": 2}, each named by its JSON text
ColumnMaps == {"{\"a\":1}", "{\"a\":2}"}

\* the elements of a log array: objects with a columns field, and one without
LogEntries == {[columns |-> c] : c \in ColumnMaps} \cup {[id |-> 7]}

LogArrays == UNION {[1..n -> LogEntries] : n \in 0..MaxEntries}

JsonArray(items) == [t |-> "array", items |-> items]

JsonObject(members) == [t |-> "object", members |-> members]

\* a string inside a JSON text: quotes and backslashes escaped
RECURSIVE Escape(_)
Escape(s) ==
    IF s = "" THEN ""
    ELSE LET c == CharAt(s, 1)
             rest == Escape(SubSeq(s, 2, Len(s)))
         IN  IF c = "\"" \/ c = "\\" THEN "\\" \o c \o rest ELSE c \o rest

DumpScalar(v) == IF v = None THEN "null" ELSE "\"" \o Escape(v) \o "\""

DumpEntry(e) ==
    IF "columns" \in DOMAIN e
    THEN "{\"columns\":" \o e.columns \o "}"
    ELSE "{\"id\":" \o ToString(e.id) \o "}"

DumpArray(items) ==
    "[" \o Join(",", [i \in 1..Len(items) |-> DumpEntry(items[i])]) \o "]"

KeyOrder == <<"access_token", "message", "payload">>

DumpObject(members) ==
    LET keys == SelectSeq(KeyOrder, LAMBDA k : k \in DOMAIN members)
    IN  "{" \o Join(",", [i \in 1..Len(keys) |->
                "\"" \o keys[i] \o "\":" \o DumpScalar(members[keys[i]])]) \o "}"

JsonArrays == {JsonArray(items) : items \in LogArrays}

ArrayTexts == {DumpArray(items) : items \in LogArrays}

\* the access tokens the portal issues
Tokens == {"T1", "T2"}

JsonObjects ==
    {JsonObject([k \in {} |-> ""])}
    \cup {JsonObject([message |-> m]) : m \in {"bad thing"} \cup ArrayTexts}
    \cup {JsonObject([access_token |-> tok]) : tok \in Tokens \cup {None}}
    \cup {JsonObject([payload |-> "{}"])}

JsonDocs == JsonObjects \cup JsonArrays

JsonText == [d \in JsonDocs |->
                IF d.t = "array" THEN DumpArray(d.items) ELSE DumpObject(d.members)]

\* the documents a text decodes to: at most one, none when it is no JSON
Decoded(text) == {d \in JsonDocs : JsonText[d] = text}

\* json.loads(text) / Response.json(): defined when the text decodes
json_valid(text) == Decoded(text) # {}

json_loads(text) == CHOOSE d \in Decoded(text) : TRUE

\* dict.get(key, default)
dict_get(members, key, default) ==
    IF key \in DOMAIN members THEN members[key] ELSE default

\* bodies that are no JSON
NonJsonTexts == {"Internal Server Error"}

\* the bodies a response to a log read may carry
LogBodies == {JsonText[d] : d \in JsonObjects} \cup {DumpArray(<<>>)} \cup NonJsonTexts

\* the bodies any other response may carry: those whose message is no log array
Bodies == {b \in LogBodies :
              json_valid(b) /\ json_loads(b).t = "object"
                  => \A m \in ArrayTexts : dict_get(json_loads(b).members, "message", "") # m}

\* the bodies of the answers to an authenticated request: those of Bodies that
\* are no answer of the login endpoint
ReplyBodies == {b \in Bodies :
                   json_valid(b) /\ json_loads(b).t = "object"
                       => "access_token" \notin DOMAIN json_loads(b).members}

\* the bodies of a log read whose message is the text of a log array
LogArrayBodies == LogBodies \ Bodies

\* the status codes a response may carry
Statuses == {200, 500}

---------------------------------------------------------------------------
(* Requests, responses and the ways a call ends. *)

NoRequest == [none |-> TRUE]

NoResponse == [none |-> TRUE]

\* the call has issued its request and waits for the response
Running == [running |-> TRUE]

\* return value
Returned(value) == [returned |-> value]

\* raise exc(...), for the exceptions whose arguments the model does not keep
Raised(exc) == [raised |-> exc]

\* raise ValueError(message), the three configuration errors of login
RaisedValueError(message) == [raised |-> "ValueError", message |-> message]

\* raise ValueError('Error during <what>. Server returned %d. %s' % (status_code, message))
RaisedRequestError(what, status_code, message) ==
    [raised |-> "ValueError", what |-> what, status_code |-> status_code, message |-> message]

\* raise ValueError('Error during <what>. %s', text): the text is a second
\* argument and the status code is not among the arguments
RaisedUnformatted(what, text) ==
    [raised |-> "ValueError", what |-> what, args |-> <<text>>]

HasReturned(o) == "returned" \in DOMAIN o

HasRaised(o) == "raised" \in DOMAIN o

NoHeaders == [h \in {} |-> ""]

ContentDisposition(value) == [h \in {"Content-Disposition"} |-> value]

\* Response.content, the body; Response.text is the same body as a str
content(resp) == resp.text

\* the responses to the login request
LoginResponses == [status_code : Statuses, text : Bodies, headers : {NoHeaders}]

\* the responses to an authenticated request
Responses == [status_code : Statuses, text : ReplyBodies, headers : {NoHeaders}]

\* the two header values of the documentation's example, with the file name
\* quoted and bare
QuotedExample == "attachment; filename=\"report_20240101.pdf\""

BareExample == "attachment; filename=report_20240101.pdf"

\* the responses to a log read
LogResponses ==
    Responses \cup [status_code : {200}, text : LogArrayBodies, headers : {NoHeaders}]

\* the responses to an artifact download
ArtifactResponses ==
    Responses \cup [status_code : {200}, text : NonJsonTexts,
                    headers : {ContentDisposition(QuotedExample),
                               ContentDisposition(BareExample)}]

---------------------------------------------------------------------------
(* The session: construction, the server property, login and logoff. *)

\* the server URLs a caller may pass: none, every URL up to MaxUrlLen, and
\* two that end in one and in two slashes
ServerArgs == {None, "x/", "//"} \cup StringsUpTo({"x", "/"}, MaxUrlLen)

\* the logins and keys a caller may pass
CredentialArgs == {None, "", "u"}

\* a setter that removes every trailing slash
RECURSIVE server_setter_rstrip(_)
server_setter_rstrip(server) ==
    IF Truthy(server) /\ CharAt(server, Len(server)) = "/"
    THEN server_setter_rstrip(SubSeq(server, 1, Len(server) - 1))
    ELSE server

\* server.setter: the value stored for server
server_setter(server) ==
    IF Truthy(server) /\ CharAt(server, Len(server)) = "/"
    THEN SubSeq(server, 1, Len(server) - 1)
    ELSE server

\* __init__(server, login, key)
Init ==
    \E server \in ServerArgs, login \in CredentialArgs, key \in CredentialArgs :
        /\ _server = server_setter(server)
        /\ _login = login
        /\ _key = key
        /\ _access_token = None
        /\ call = [op |-> "__init__", server |-> server, login |-> login, key |-> key]
        /\ request = NoRequest
        /\ response = NoResponse
        /\ outcome = Returned(None)
        /\ open_files = 0

\* sdk.server = server
SetServer(server) ==
    /\ outcome # Running
    /\ _server' = server_setter(server)
    /\ call' = [op |-> "server", server |-> server]
    /\ request' = NoRequest
    /\ response' = NoResponse
    /\ outcome' = Returned(None)
    /\ UNCHANGED <<_login, _key, _access_token, open_files>>

\* the server login leaves stored: the argument through the setter when it is
\* given and not empty, the stored one otherwise
login_server(server, stored) ==
    IF Truthy(server) THEN server_setter(server) ELSE stored

\* login that does not check the key
login_validate_no_key(server, login_, key) ==
    IF ~Truthy(server) THEN "Server is required."
    ELSE IF ~Truthy(login_) THEN "Login is required."
    ELSE ""

\* the first check of login that fails, as the message of its ValueError; "" when all pass
login_validate(server, login_, key) ==
    IF ~Truthy(server) THEN "Server is required."
    ELSE IF ~Truthy(login_) THEN "Login is required."
    ELSE IF ~Truthy(key) THEN "Key is required."
    ELSE ""

\* a login that posts without logging off first
login_logoff_skipped(token) == token

\* the token login leaves once the checks have passed and before it posts: logoff()
login_logoff(token) == None

\* login(server, login, key), up to the POST
login(server, login_, key) ==
    LET s == login_server(server, _server)
        l == PyOr(login_, _login)
        k == PyOr(key, _key)
        failed == login_validate(s, l, k)
    IN  /\ outcome # Running
        /\ _server' = s
        /\ _login' = l
        /\ _key' = k
        /\ call' = [op |-> "login", server |-> server, login |-> login_, key |-> key]
        /\ response' = NoResponse
        /\ IF failed # ""
           THEN /\ outcome' = RaisedValueError(failed)
                /\ request' = NoRequest
                /\ UNCHANGED _access_token
           ELSE /\ _access_token' = login_logoff(_access_token)
                /\ request' = [method |-> "POST", url |-> s \o "/app/api/login",
                               data |-> [userLogin |-> l, key |-> k]]
                /\ outcome' = Running
        /\ UNCHANGED open_files

\* how login ends on a response
login_result(resp) ==
    IF resp.status_code = 200
    THEN IF ~json_valid(resp.text) THEN Raised("JSONDecodeError")
         ELSE LET doc == json_loads(resp.text)
              IN  IF doc.t # "object" THEN Raised("TypeError")
                  ELSE IF "access_token" \notin DOMAIN doc.members THEN Raised("KeyError")
                  ELSE Returned(None)
    ELSE RaisedRequestError("login", resp.status_code, resp.text)

\* login that keeps the token it had instead of storing the one returned
login_token_kept(resp, token) == token

\* the token login stores on a response
login_token(resp, token) ==
    IF HasReturned(login_result(resp))
    THEN json_loads(resp.text).members.access_token
    ELSE token

\* login, from the response on
login_response ==
    /\ outcome = Running
    /\ call.op = "login"
    /\ \E resp \in LoginResponses :
        /\ response' = resp
        /\ outcome' = login_result(resp)
        /\ _access_token' = login_token(resp, _access_token)
    /\ UNCHANGED <<_server, _login, _key, call, request, open_files>>

\* the values a caller assigns to the access_token property
TokenArgs == Tokens \cup {None, ""}

\* the access_token setter: the value stored for the one assigned
access_token_setter(token) == token

\* sdk.access_token = token
SetAccessToken(token) ==
    /\ outcome # Running
    /\ _access_token' = access_token_setter(token)
    /\ call' = [op |-> "access_token", token |-> token]
    /\ request' = NoRequest
    /\ response' = NoResponse
    /\ outcome' = Returned(None)
    /\ UNCHANGED <<_server, _login, _key, open_files>>

\* logoff()
logoff ==
    /\ outcome # Running
    /\ _access_token' = None
    /\ call' = [op |-> "logoff"]
    /\ request' = NoRequest
    /\ response' = NoResponse
    /\ outcome' = Returned(None)
    /\ UNCHANGED <<_server, _login, _key, open_files>>

---------------------------------------------------------------------------
(* The authenticated operations: the call up to the request. *)

\* ensure_access_token that lets every call through
ensure_access_token_always(access_token) == TRUE

\* ensure_access_token: whether the wrapper lets the call through
ensure_access_token(access_token) == access_token # None

\* the calls of an authenticated operation that ends in the wrapper or sends
\* its request with the token attached
AuthenticatedCall(op, method, path) ==
    /\ outcome # Running
    /\ call' = [op |-> op]
    /\ response' = NoResponse
    /\ IF ensure_access_token(_access_token)
       THEN /\ request' = [method |-> method, url |-> _server \o path,
                           access_token |-> _access_token]
            /\ outcome' = Running
       ELSE /\ request' = NoRequest
            /\ outcome' = Raised("RuntimeError")
    /\ UNCHANGED <<_server, _login, _key, _access_token, open_files>>

alert == AuthenticatedCall("alert", "POST", "/app/api/alert/send")

message == AuthenticatedCall("message", "POST", "/app/api/message/send")

create_task == AuthenticatedCall("create_task", "POST", "/app/api/task/create")

finish_task == AuthenticatedCall("finish_task", "POST", "/app/api/task/finish")

restart_task == AuthenticatedCall("restart_task", "POST", "/app/api/task/restart")

get_task == AuthenticatedCall("get_task", "GET", "/app/api/task/get")

new_log == AuthenticatedCall("new_log", "POST", "/app/api/log/create")

new_log_entry == AuthenticatedCall("new_log_entry", "POST", "/app/api/newLogEntry")

get_log == AuthenticatedCall("get_log", "GET", "/app/api/log/read")

delete_log == AuthenticatedCall("delete_log", "POST", "/app/api/log/delete")

get_artifact == AuthenticatedCall("get_artifact", "GET", "/app/api/artifact/get")

\* what the filepath given to post_artifact names
FilePaths == {"file", "missing", "directory"}

\* open(filepath, 'rb'): the error it raises, "" when it opens the file
open_error(filepath) ==
    IF filepath = "missing" THEN "FileNotFoundError"
    ELSE IF filepath = "directory" THEN "IsADirectoryError"
    ELSE ""

\* post_artifact(task_id, artifact_name, filepath), up to the POST: the file is
\* opened and handed to the request
post_artifact ==
    /\ outcome # Running
    /\ \E filepath \in FilePaths :
        /\ call' = [op |-> "post_artifact", filepath |-> filepath]
        /\ IF ~ensure_access_token(_access_token)
           THEN /\ request' = NoRequest
                /\ outcome' = Raised("RuntimeError")
                /\ UNCHANGED open_files
           ELSE IF open_error(filepath) # ""
           THEN /\ request' = NoRequest
                /\ outcome' = Raised(open_error(filepath))
                /\ UNCHANGED open_files
           ELSE /\ open_files < MaxOpenFiles
                /\ open_files' = open_files + 1
                /\ request' = [method |-> "POST", url |-> _server \o "/app/api/newArtifact",
                               access_token |-> _access_token]
                /\ outcome' = Running
    /\ response' = NoResponse
    /\ UNCHANGED <<_server, _login, _key, _access_token>>

---------------------------------------------------------------------------
(* The authenticated operations: from the response to the end of the call. *)

\* model.ServerMessage.from_json(text)
ServerMessage_from_json(text) ==
    IF json_valid(text) /\ json_loads(text).t = "object"
    THEN Returned([type |-> "ServerMessage", json |-> text])
    ELSE Raised("ProtocolError")

\* model.AutomationTask.from_json(payload)
AutomationTask_from_json(payload) ==
    IF payload # None /\ json_valid(payload) /\ json_loads(payload).t = "object"
    THEN Returned([type |-> "AutomationTask", json |-> payload])
    ELSE Raised("ProtocolError")

\* the else branch ten operations share: the message field of the body, the
\* body itself when it is no JSON (the ValueError of req.json() is caught);
\* a body that is JSON and no object has no get, which nothing catches
request_error(what, resp) ==
    IF ~json_valid(resp.text)
    THEN RaisedRequestError(what, resp.status_code, resp.text)
    ELSE LET doc == json_loads(resp.text)
         IN  IF doc.t # "object" THEN Raised("AttributeError")
             ELSE RaisedRequestError(what, resp.status_code,
                                     dict_get(doc.members, "message", ""))

\* the else branch of alert
alert_error(resp) == RaisedUnformatted("alert", resp.text)

\* the else branch of message: req.json() is not guarded
message_error(resp) ==
    IF ~json_valid(resp.text) THEN Raised("JSONDecodeError")
    ELSE LET doc == json_loads(resp.text)
         IN  IF doc.t # "object" THEN Raised("AttributeError")
             ELSE RaisedRequestError("message", resp.status_code,
                                     dict_get(doc.members, "message", ""))

alert_result(resp) ==
    IF resp.status_code = 200 THEN ServerMessage_from_json(resp.text) ELSE alert_error(resp)

message_result(resp) ==
    IF resp.status_code = 200 THEN ServerMessage_from_json(resp.text) ELSE message_error(resp)

create_task_result(resp) ==
    IF resp.status_code = 200
    THEN IF ~json_valid(resp.text) THEN Raised("JSONDecodeError")
         ELSE LET doc == json_loads(resp.text)
              IN  IF doc.t # "object" THEN Raised("AttributeError")
                  ELSE AutomationTask_from_json(dict_get(doc.members, "payload", None))
    ELSE request_error("task create", resp)

finish_task_result(resp) ==
    IF resp.status_code = 200 THEN ServerMessage_from_json(resp.text)
    ELSE request_error("task finish", resp)

restart_task_result(resp) ==
    IF resp.status_code = 200 THEN ServerMessage_from_json(resp.text)
    ELSE request_error("task restart", resp)

get_task_result(resp) ==
    IF resp.status_code = 200 THEN AutomationTask_from_json(resp.text)
    ELSE request_error("task get", resp)

new_log_result(resp) ==
    IF resp.status_code = 200 THEN ServerMessage_from_json(resp.text)
    ELSE request_error("new log", resp)

new_log_entry_result(resp) ==
    IF resp.status_code = 200 THEN ServerMessage_from_json(resp.text)
    ELSE request_error("new log entry", resp)

\* a projection that yields the entries last to first
get_log_columns_reversed(entries) ==
    [i \in 1..Len(entries) |-> dict_get(entries[Len(entries) + 1 - i], "columns", None)]

\* [entry.get('columns') for entry in entries]
get_log_columns(entries) ==
    [i \in 1..Len(entries) |-> dict_get(entries[i], "columns", None)]

\* json.loads(req.json()['message']), then the projection
get_log_return(resp) ==
    IF ~json_valid(resp.text) THEN Raised("JSONDecodeError")
    ELSE LET doc == json_loads(resp.text)
         IN  IF doc.t # "object" THEN Raised("TypeError")
             ELSE IF "message" \notin DOMAIN doc.members THEN Raised("KeyError")
             ELSE LET text == doc.members.message
                  IN  IF text = None THEN Raised("TypeError")
                      ELSE IF ~json_valid(text) THEN Raised("JSONDecodeError")
                      ELSE LET log == json_loads(text)
                           IN  IF log.t = "array" THEN Returned(get_log_columns(log.items))
                               ELSE IF DOMAIN log.members = {} THEN Returned(<<>>)
                               ELSE Raised("AttributeError")

get_log_result(resp) ==
    IF resp.status_code = 200 THEN get_log_return(resp)
    ELSE request_error("log read", resp)

delete_log_result(resp) ==
    IF resp.status_code = 200 THEN ServerMessage_from_json(resp.text)
    ELSE request_error("log delete", resp)

post_artifact_result(resp) ==
    IF resp.status_code = 200 THEN ServerMessage_from_json(resp.text)
    ELSE request_error("artifact posting", resp)

\* a file name rule that takes the whole text after the last "="
get_artifact_filename_unquoted(h_content) ==
    LET filename == PySliceFrom(h_content, rfind(h_content, "=") + 1)
    IN  PySlice(filename, 0, rfind(filename, "_"))
            \o PySliceFrom(filename, rfind(filename, "."))

\* the file name get_artifact takes from the Content-Disposition header
get_artifact_filename(h_content) ==
    LET filename == PySlice(h_content, rfind(h_content, "=") + 2, -1)
    IN  PySlice(filename, 0, rfind(filename, "_"))
            \o PySliceFrom(filename, rfind(filename, "."))

get_artifact_result(resp) ==
    IF resp.status_code = 200
    THEN IF "Content-Disposition" \notin DOMAIN resp.headers THEN Raised("KeyError")
         ELSE Returned([filename |-> get_artifact_filename(resp.headers["Content-Disposition"]),
                        content |-> content(resp)])
    ELSE request_error("artifact get", resp)

\* an operation that drops the token when its call ends with an error
Complete_token_dropped(op, resp, result) ==
    /\ outcome = Running
    /\ call.op = op
    /\ response' = resp
    /\ outcome' = result
    /\ _access_token' = IF HasRaised(result) THEN None ELSE _access_token
    /\ UNCHANGED <<_server, _login, _key, call, request>>

\* the response resp arrives and the call of op ends with result
Complete(op, resp, result) ==
    /\ outcome = Running
    /\ call.op = op
    /\ response' = resp
    /\ outcome' = result
    /\ UNCHANGED <<_server, _login, _key, _access_token, call, request>>

alert_response ==
    \E resp \in Responses :
        Complete("alert", resp, alert_result(resp)) /\ UNCHANGED open_files

message_response ==
    \E resp \in Responses :
        Complete("message", resp, message_result(resp)) /\ UNCHANGED open_files

create_task_response ==
    \E resp \in Responses :
        Complete("create_task", resp, create_task_result(resp)) /\ UNCHANGED open_files

finish_task_response ==
    \E resp \in Responses :
        Complete("finish_task", resp, finish_task_result(resp)) /\ UNCHANGED open_files

restart_task_response ==
    \E resp \in Responses :
        Complete("restart_task", resp, restart_task_result(resp)) /\ UNCHANGED open_files

get_task_response ==
    \E resp \in Responses :
        Complete("get_task", resp, get_task_result(resp)) /\ UNCHANGED open_files

new_log_response ==
    \E resp \in Responses :
        Complete("new_log", resp, new_log_result(resp)) /\ UNCHANGED open_files

new_log_entry_response ==
    \E resp \in Responses :
        Complete("new_log_entry", resp, new_log_entry_result(resp)) /\ UNCHANGED open_files

get_log_response ==
    \E resp \in LogResponses :
        Complete("get_log", resp, get_log_result(resp)) /\ UNCHANGED open_files

delete_log_response ==
    \E resp \in Responses :
        Complete("delete_log", resp, delete_log_result(resp)) /\ UNCHANGED open_files

get_artifact_response ==
    \E resp \in ArtifactResponses :
        Complete("get_artifact", resp, get_artifact_result(resp)) /\ UNCHANGED open_files

\* post_artifact never closes the file it opened: the file object is closed
\* only when the runtime reclaims it, which may happen as the call's frame is
\* released or later (an exception in flight keeps the frame, and the file)
post_artifact_response ==
    \E resp \in Responses, reclaimed \in BOOLEAN :
        /\ Complete("post_artifact", resp, post_artifact_result(resp))
        /\ open_files' = IF reclaimed THEN open_files - 1 ELSE open_files

\* the files a running call holds: the request of a running post_artifact
\* refers to the file it opened, which the runtime cannot reclaim before it ends
held_files == IF outcome = Running /\ call.op = "post_artifact" THEN 1 ELSE 0

\* the runtime reclaims a file object post_artifact left open, at whatever
\* moment it collects: between calls or while a call is running
reclaim_file ==
    /\ open_files > held_files
    /\ open_files' = open_files - 1
    /\ UNCHANGED <<_server, _login, _key, _access_token, call, request, response, outcome>>

---------------------------------------------------------------------------

Next ==
    \/ \E server \in ServerArgs : SetServer(server)
    \/ \E server \in ServerArgs, login_ \in CredentialArgs, key \in CredentialArgs :
           login(server, login_, key)
    \/ login_response
    \/ logoff
    \/ \E token \in TokenArgs : SetAccessToken(token)
    \/ alert \/ alert_response
    \/ message \/ message_response
    \/ create_task \/ create_task_response
    \/ finish_task \/ finish_task_response
    \/ restart_task \/ restart_task_response
    \/ get_task \/ get_task_response
    \/ new_log \/ new_log_response
    \/ new_log_entry \/ new_log_entry_response
    \/ get_log \/ get_log_response
    \/ delete_log \/ delete_log_response
    \/ post_artifact \/ post_artifact_response
    \/ get_artifact \/ get_artifact_response
    \/ reclaim_file

Spec == Init /\ [][Next]_vars

---------------------------------------------------------------------------
(* Artifact downloads alone, over every header value up to MaxHeaderLen.    *)

\* the characters of a header value: the separators the file name rule reads,
\* the quote, and a letter
HeaderAlphabet == {"=", "\"", "_", ".", "a"}

HeaderValues == StringsUpTo(HeaderAlphabet, MaxHeaderLen) \cup {QuotedExample, BareExample}

HeaderResponses ==
    [status_code : {200}, text : NonJsonTexts,
     headers : {ContentDisposition(h) : h \in HeaderValues}]

\* a client that has logged in
InitArtifact ==
    /\ _server = "x"
    /\ _login = "u"
    /\ _key = "u"
    /\ _access_token \in Tokens
    /\ call = [op |-> "login", server |-> None, login |-> None, key |-> None]
    /\ request = [method |-> "POST", url |-> "x/app/api/login",
                  data |-> [userLogin |-> "u", key |-> "u"]]
    /\ response = [status_code |-> 200,
                   text |-> DumpObject([access_token |-> _access_token]),
                   headers |-> NoHeaders]
    /\ outcome = Returned(None)
    /\ open_files = 0

get_artifact_header_response ==
    /\ outcome = Running
    /\ \E resp \in HeaderResponses :
           Complete("get_artifact", resp, get_artifact_result(resp)) /\ UNCHANGED open_files

NextArtifact == get_artifact \/ get_artifact_header_response

SpecArtifact == InitArtifact /\ [][NextArtifact]_vars

---------------------------------------------------------------------------
(* The properties. *)

AuthenticatedOps ==
    {"alert", "message", "create_task", "finish_task", "restart_task", "get_task",
     "new_log", "new_log_entry", "get_log", "delete_log", "post_artifact", "get_artifact"}

\* the last call was a login, and login's POST has been answered
LoginAnswered == call.op = "login" /\ response # NoResponse

\* the last call was an authenticated operation whose request has been answered
Answered == call.op \in AuthenticatedOps /\ response # NoResponse

\* C1: while the token is absent, a call of any of the twelve authenticated
\* operations ends with the precondition error (RuntimeError) and has issued no
\* HTTP request, so no response either.  An authenticated call leaves the token
\* as it was, so the token of the state is the token the call found.
C1_NoTokenNoRequest ==
    (call.op \in AuthenticatedOps /\ _access_token = None)
        => /\ outcome = Raised("RuntimeError")
           /\ request = NoRequest
           /\ response = NoResponse

\* C1 happens: a configured client without a token has been refused a call
C1_Witness ==
    /\ call.op = "get_artifact"
    /\ _access_token = None
    /\ Truthy(_server) /\ Truthy(_login) /\ Truthy(_key)
    /\ outcome = Raised("RuntimeError")

\* C2, the stored token: a login answered 200 with access_token T has stored T
C2_LoginStoresToken ==
    \A T \in Tokens :
        (/\ LoginAnswered
         /\ response.status_code = 200
         /\ response.text = "{\"access_token\":\"" \o T \o "\"}")
            => _access_token = T /\ outcome = Returned(None)

\* C2, the attached token: the request of an authenticated call carries the
\* stored token
C2_RequestCarriesToken ==
    (call.op \in AuthenticatedOps /\ request # NoRequest)
        => request.access_token = _access_token /\ _access_token # None

\* C2, until the next login or logoff: only a step of login or logoff changes
\* the stored token
C2_TokenKept ==
    _access_token' # _access_token => call'.op \in {"login", "logoff"}

\* C2 as stated: a login answered 200 with access_token T stores T; every
\* authenticated request carries the token stored when it is sent; and the
\* stored token changes only in login and logoff.  So the requests after a
\* login that returned T carry T until the next login or logoff, and after a
\* login that returned T2 they carry T2.
C2_TokenAttached ==
    [](C2_LoginStoresToken /\ C2_RequestCarriesToken) /\ [][C2_TokenKept]_vars

\* C2, amended, until the token is next written: only a step of login, of
\* logoff or of an assignment to the access_token property changes the stored
\* token
C2_TokenKeptUnlessAssigned ==
    _access_token' # _access_token => call'.op \in {"login", "logoff", "access_token"}

\* C2, amended: a login answered 200 with access_token T stores T; every
\* authenticated request carries the token stored when it is sent; and the
\* stored token changes only in login, in logoff and when the caller assigns
\* the access_token property.  So the requests after a login that returned T
\* carry T until the next login, logoff or assignment, and after a login that
\* returned T2 they carry T2.
C2_TokenAttachedUntilWritten ==
    /\ [](C2_LoginStoresToken /\ C2_RequestCarriesToken)
    /\ [][C2_TokenKeptUnlessAssigned]_vars

\* C2 happens: an authenticated request on the wire carries the second token
C2_Witness ==
    /\ call.op = "alert"
    /\ outcome = Running
    /\ request # NoRequest
    /\ request.access_token = "T2"
    /\ _access_token = "T2"

\* the fields login finds missing, as the messages that name them
MissingFields ==
    {m \in {"Server is required.", "Login is required.", "Key is required."} :
        \/ m = "Server is required." /\ ~Truthy(_server)
        \/ m = "Login is required." /\ ~Truthy(_login)
        \/ m = "Key is required." /\ ~Truthy(_key)}

\* the value the documentation gives for a stored server URL: one trailing
\* slash less
StripOne(s) ==
    IF Len(s) > 0 /\ SubSeq(s, Len(s), Len(s)) = "/" THEN SubSeq(s, 1, Len(s) - 1) ELSE s

\* C3: login stores the arguments it was given (an argument that is given and
\* not empty replaces the stored value), and when server, login or key is then
\* empty or unset it ends with a ValueError whose message names a missing field
\* and has issued no HTTP request.
C3_LoginRequiresFields ==
    call.op = "login"
        => /\ Truthy(call.server) => _server = StripOne(call.server)
           /\ Truthy(call.login) => _login = call.login
           /\ Truthy(call.key) => _key = call.key
           /\ MissingFields # {}
                => /\ HasRaised(outcome)
                   /\ outcome.raised = "ValueError"
                   /\ DOMAIN outcome = {"raised", "message"}
                   /\ outcome.message \in MissingFields
                   /\ request = NoRequest
                   /\ response = NoResponse

\* C3 happens: the server of a client that holds a token was set to the empty
\* string, and a login given a login and a key has failed for the server
C3_Witness ==
    /\ call.op = "login"
    /\ Truthy(call.login) /\ Truthy(call.key) /\ ~Truthy(_server)
    /\ outcome = RaisedValueError("Server is required.")
    /\ request = NoRequest
    /\ _access_token # None

\* the message the documentation gives for the error of a response that is not
\* a 200: the message field of a JSON body, the body itself when it is no JSON
DocumentedMessage(resp) ==
    IF json_valid(resp.text)
    THEN dict_get(json_loads(resp.text).members, "message", "")
    ELSE resp.text

\* the bodies the documentation of the error speaks of: no JSON, or a JSON
\* object with a message field
DocumentedBody(resp) ==
    json_valid(resp.text)
        => /\ json_loads(resp.text).t = "object"
           /\ "message" \in DOMAIN json_loads(resp.text).members

\* C4: on each of the twelve authenticated endpoints a response that is not a
\* 200 ends the call with an error that carries the status code of the response
\* and, as its message, the message field of a JSON body or the raw body when
\* it is no JSON.
C4_RequestError ==
    (Answered /\ response.status_code # 200 /\ DocumentedBody(response))
        => /\ HasRaised(outcome)
           /\ "status_code" \in DOMAIN outcome
           /\ outcome.status_code = response.status_code
           /\ outcome.message = DocumentedMessage(response)


\* whether the character c occurs in s
Contains(s, c) == \E i \in 1..Len(s) : SubSeq(s, i, i) = c

\* the position of the last c in s, which contains one
LastPos(s, c) ==
    CHOOSE i \in 1..Len(s) :
        /\ SubSeq(s, i, i) = c
        /\ \A j \in (i + 1)..Len(s) : SubSeq(s, j, j) # c

\* the text after the last "=" of a header value that has one
AfterLastEquals(h) == SubSeq(h, LastPos(h, "=") + 1, Len(h))

\* a text without its first and last characters
Inside(text) == SubSeq(text, 2, Len(text) - 1)

\* a file name has a suffix to remove: a last "_" with a last "." after it
HasSuffix(name) ==
    Contains(name, "_") /\ Contains(name, ".") /\ LastPos(name, "_") < LastPos(name, ".")

\* the name without the segment from its last "_" up to, not including, its last "."
WithoutSuffix(name) ==
    SubSeq(name, 1, LastPos(name, "_") - 1) \o SubSeq(name, LastPos(name, "."), Len(name))

\* an artifact download was answered 200 with a Content-Disposition header
ArtifactAnswered ==
    /\ call.op = "get_artifact"
    /\ response # NoResponse
    /\ response.status_code = 200
    /\ "Content-Disposition" \in DOMAIN response.headers

\* C5 as stated: the file name is the text after the last "=" of the header
\* without its suffix, so that ...filename=report_20240101.pdf gives
\* report.pdf, and the body is returned unchanged.
C5_FilenameAfterEquals ==
    LET h == response.headers["Content-Disposition"]
    IN  (ArtifactAnswered /\ Contains(h, "=") /\ HasSuffix(AfterLastEquals(h)))
            => /\ HasReturned(outcome)
               /\ outcome.returned.filename = WithoutSuffix(AfterLastEquals(h))
               /\ outcome.returned.content = response.text

\* C5, amended: the file name is the text after the last "=" of the header
\* without its first and last characters (the quotes around the name) and then
\* without its suffix, so that ...filename="report_20240101.pdf" gives
\* report.pdf, and the body is returned unchanged.
C5_FilenameInsideQuotes ==
    LET h == response.headers["Content-Disposition"]
    IN  (ArtifactAnswered /\ Contains(h, "=") /\ HasSuffix(Inside(AfterLastEquals(h))))
            => /\ HasReturned(outcome)
               /\ outcome.returned.filename = WithoutSuffix(Inside(AfterLastEquals(h)))
               /\ outcome.returned.content = response.text

\* C5 happens: the quoted example was received and report.pdf returned
C5_Witness ==
    /\ ArtifactAnswered
    /\ response.headers["Content-Disposition"] = QuotedExample
    /\ outcome = Returned([filename |-> "report.pdf", content |-> response.text])

\* every element of a log array has a columns field
AllHaveColumns(items) == \A i \in 1..Len(items) : "columns" \in DOMAIN items[i]

\* a log read was answered 200 with the message field holding the text of items
LogAnswered(items) ==
    /\ call.op = "get_log"
    /\ response # NoResponse
    /\ response.status_code = 200
    /\ response.text = "{\"message\":\"" \o Escape(DumpArray(items)) \o "\"}"

\* C6: a log read answered 200 whose message field is the JSON text of an
\* array of objects that each have a columns field returns the columns values
\* of the elements, one per element and in the order of the array.
C6_LogColumns ==
    \A items \in LogArrays :
        (LogAnswered(items) /\ AllHaveColumns(items))
            => /\ HasReturned(outcome)
               /\ Len(outcome.returned) = Len(items)
               /\ \A i \in 1..Len(items) : outcome.returned[i] = items[i].columns

\* C6 happens: the example of the documentation, {a:1} then {a:2}
C6_Witness ==
    /\ call.op = "get_log"
    /\ response # NoResponse
    /\ response.status_code = 200
    /\ response.text =
         "{\"message\":\"[{\\\"columns\\\":{\\\"a\\\":1}},{\\\"columns\\\":{\\\"a\\\":2}}]\"}"
    /\ outcome = Returned(<<"{\"a\":1}", "{\"a\":2}">>)

\* the last call gave a server URL: the constructor, the setter, or login
ServerGiven ==
    /\ call.op \in {"__init__", "server", "login"}
    /\ call.server # None

\* C7 as stated: whichever of the constructor, the setter and login is given
\* the string s as the server, StripOne(s) is stored: s + "/" stores what s
\* does, s + "//" stores s + "/", and s without a trailing slash is stored as
\* it is; the constructor and the setter issue no request.
C7_ServerStored ==
    ServerGiven
        => /\ _server = StripOne(call.server)
           /\ call.op # "login" => request = NoRequest /\ response = NoResponse

\* C7, amended: the same for the constructor and the setter and every string,
\* and for login and every string that is not empty (login keeps the stored
\* URL when its server argument is empty).
C7_ServerStoredUnlessEmpty ==
    (ServerGiven /\ (call.op = "login" => call.server # ""))
        => /\ _server = StripOne(call.server)
           /\ call.op # "login" => request = NoRequest /\ response = NoResponse

\* C7 happens: login was given a server that ends in two slashes and one is kept
C7_Witness ==
    /\ call.op = "login"
    /\ call.server = "//"
    /\ _server = "/"

\* C8: when post_artifact has ended, by a return or by an exception, no file
\* object the client opened is still open.
C8_FileReleased ==
    (/\ call.op = "post_artifact"
     /\ response # NoResponse
     /\ HasReturned(outcome) \/ response.status_code # 200)
        => open_files = 0

\* C9, login: a login answered 200 with a body that gives no access_token has
\* ended with an error and the token is absent
C9_LoginWithoutToken ==
    (/\ LoginAnswered
     /\ response.status_code = 200
     /\ json_valid(response.text) =>
           \/ json_loads(response.text).t # "object"
           \/ "access_token" \notin DOMAIN json_loads(response.text).members)
        => HasRaised(outcome) /\ _access_token = None

\* C9, log read: a log read answered 200 with an array in which an element has
\* no columns field has ended with an error
C9_LogWithoutColumns ==
    \A items \in LogArrays :
        (LogAnswered(items) /\ ~AllHaveColumns(items)) => HasRaised(outcome)

\* C9: a 200 whose body has not the expected shape ends the call with an
\* error and never with a value: a login answered 200 without access_token
\* fails and leaves the token absent, and a log read answered 200 with an array
\* in which an element has no columns field fails.
C9_MalformedFails == C9_LoginWithoutToken /\ C9_LogWithoutColumns

\* C10, before the request: while login's POST is on the wire the token is absent
C10_ClearedBeforePost ==
    (call.op = "login" /\ outcome = Running)
        => _access_token = None /\ request # NoRequest

\* C10, the failure: a login answered with another status than 200 has ended
\* with an error that carries the status code and the body, and the token is absent
C10_FailureLeavesNoToken ==
    (LoginAnswered /\ response.status_code # 200)
        => /\ outcome = RaisedRequestError("login", response.status_code, response.text)
           /\ _access_token = None

\* C10, afterwards: an absent token becomes present only by a login that returns
C10_OnlyLoginRestores ==
    (_access_token = None /\ _access_token' # None)
        => call'.op = "login" /\ HasReturned(outcome')

\* C10 as stated: login that has passed its checks clears the token before it
\* posts; a status other than 200 ends it with an error carrying the status
\* code and the body and leaves the token absent, whatever token was held
\* before; and the token stays absent until a login returns.
C10_FailedLoginClearsToken ==
    [](C10_ClearedBeforePost /\ C10_FailureLeavesNoToken) /\ [][C10_OnlyLoginRestores]_vars

\* C10, amended, afterwards: an absent token becomes present only by a login
\* that returns or by an assignment to the access_token property
\* (an authenticated call, which leaves the token alone, is refused meanwhile)
C10_OnlyLoginOrAssignmentRestores ==
    (_access_token = None /\ _access_token' # None)
        => \/ call'.op = "login" /\ HasReturned(outcome')
           \/ call'.op = "access_token" /\ _access_token' = call'.token

\* C10, amended: login that has passed its checks clears the token before it
\* posts; a status other than 200 ends it with an error carrying the status
\* code and the body and leaves the token absent, whatever token was held
\* before; and the token stays absent until a login returns or the caller
\* assigns the access_token property.
C10_FailedLoginClearsTokenUntilWritten ==
    /\ [](C10_ClearedBeforePost /\ C10_FailureLeavesNoToken)
    /\ [][C10_OnlyLoginOrAssignmentRestores]_vars

\* C10 happens: a login with the stored credentials has been refused
C10_Witness ==
    /\ LoginAnswered
    /\ response.status_code = 500
    /\ call.login = None /\ call.key = None
    /\ _access_token = None
    /\ HasRaised(outcome)

\* the last call was an authenticated operation that the token precondition let through
PassedPrecondition == call.op \in AuthenticatedOps /\ outcome # Raised("RuntimeError")

\* C11, the frame: a step of an authenticated operation (its call, refused or
\* sent, and the arrival of its response, 200 or not) leaves the stored token,
\* server URL, login and key as they were
C11_OperationFrame ==
    call'.op \in AuthenticatedOps
        => /\ _access_token' = _access_token
           /\ _server' = _server
           /\ _login' = _login
           /\ _key' = _key

\* C11, the writers: a step that changes the stored token is a step of logoff,
\* which clears it, or of login, which clears it before its POST and stores the
\* one of the response when it returns
C11_TokenWriters ==
    _access_token' # _access_token
        => \/ call'.op = "logoff" /\ _access_token' = None
           \/ call'.op = "login" /\ outcome' = Running /\ _access_token' = None
           \/ call'.op = "login" /\ HasReturned(outcome') /\ _access_token = None

\* C11, the later call: from one authenticated call to the next, and from a
\* call to its end, the token precondition is passed exactly when it was passed
\* before, whatever the outcome of the earlier call was
C11_PreconditionKept ==
    (call.op \in AuthenticatedOps /\ call'.op \in AuthenticatedOps)
        => (PassedPrecondition' <=> PassedPrecondition)

\* C11, the precondition: an authenticated call is refused exactly when the
\* token is absent
C11_PreconditionIsToken ==
    call.op \in AuthenticatedOps
        => (PassedPrecondition <=> _access_token # None)

\* C11 as stated: the token is written only by login and logoff.  Every authenticated
\* operation, whether it returns, fails on a response other than 200 or is
\* refused for want of a token, leaves the stored token, server URL, login and
\* key unchanged, so a later authenticated call passes the token precondition
\* exactly when the earlier one did.
C11_TokenWrittenByLoginLogoff ==
    /\ []C11_PreconditionIsToken
    /\ [][C11_OperationFrame /\ C11_TokenWriters /\ C11_PreconditionKept]_vars

\* C11, amended, the writers: a step that changes the stored token is a step of
\* logoff, of login, or of an assignment to the access_token property, which
\* stores the value assigned
C11_TokenWritersWithSetter ==
    _access_token' # _access_token
        => \/ call'.op = "logoff" /\ _access_token' = None
           \/ call'.op = "login" /\ outcome' = Running /\ _access_token' = None
           \/ call'.op = "login" /\ HasReturned(outcome') /\ _access_token = None
           \/ call'.op = "access_token" /\ _access_token' = call'.token

\* C11, amended: the token is written only by login, by logoff and by an
\* assignment to the access_token property.  Every authenticated operation,
\* whether it returns, fails on a response other than 200 or is refused for
\* want of a token, leaves the stored token, server URL, login and key
\* unchanged, so a later authenticated call passes the token precondition
\* exactly when the earlier one did.
C11_TokenWrittenByLoginLogoffSetter ==
    /\ []C11_PreconditionIsToken
    /\ [][C11_OperationFrame /\ C11_TokenWritersWithSetter /\ C11_PreconditionKept]_vars

\* C11 happens: an authenticated call has failed on a 500 answer and the client
\* still holds its token, server URL, login and key
C11_Witness ==
    /\ call.op = "get_task"
    /\ response # NoResponse
    /\ response.status_code = 500
    /\ HasRaised(outcome)
    /\ _access_token = "T1"
    /\ Truthy(_server) /\ Truthy(_login) /\ Truthy(_key)

=============================================================================
